---------------------------- MODULE Spec2Model ----------------------------
(***************************************************************************)
(* Model of the Tor service manager (rust/src/manager.rs) and of the       *)
(* proxy-aware TCP provider (rust/src/proxy_provider.rs).                  *)
(*                                                                         *)
(* Spec         : start() and stop() of the manager, called concurrently,  *)
(*                and the background accept tasks start() spawns.          *)
(* ProviderSpec : ProxyTcpProvider::connect under every ProxyConfig        *)
(*                variant (the two that start() builds among them), with   *)
(*                set_proxy() calls running concurrently.                  *)
(* CodecSpec    : connect() with connect_socks5 and connect_http modelled  *)
(*                byte by byte, against proxies of every behaviour, on a   *)
(*                process whose proxy was set before.                      *)
(* HttpSpec     : connect_http against responses of every status and of    *)
(*                every length about its limit.                            *)
(* ClientSpec   : the manager with the providers of its start() calls in   *)
(*                use: connect() beside start(), stop() and set_proxy().   *)
(*                                                                         *)
(* Option<T> is a tuple: None is << >>, Some(x) is <<x>>.  A String is a   *)
(* sequence of bytes, except host texts, which are kept as TLA+ strings.   *)
(***************************************************************************)
EXTENDS Naturals, Integers, Sequences, FiniteSets, TLC

VARIABLES
    ServiceState, \* manager.rs STATE (a reserved word here): Option<(port, JoinHandle)>
    tasks,        \* every task tokio::spawn created, by handle: port, status, provider
    spc,          \* per start() caller: "idle" or "boot" (awaiting create_bootstrapped)
    sargs,        \* per start() caller: Option of the arguments of its call in progress
    lastRet,      \* Option of the last return of start(): its arguments and its value
    provider,     \* per start() caller: Option of the ProxyConfig of the provider it built
    nStarts,      \* number of start() calls made
    nStops,       \* number of stop() calls made
    stopAt,       \* Option of the number of start() calls made when stop() last returned
    cell,         \* manager.rs CURRENT_PROXY: the memory of the Option<ProxyInfo>
    proxyLock,    \* holders of the CURRENT_PROXY mutex
    wpc,          \* per set_proxy() caller: "idle", "locked", "half"
    warg,         \* per set_proxy() caller: its argument
    committed,    \* argument of the last set_proxy() that completed its assignment
    issued,       \* arguments of all set_proxy() calls so far
    cpc,          \* per connect() call: its position
    ccfg,         \* per connect() call: proxy_config of the provider it runs on
    cstart,       \* per connect() call: Option of the arguments of the start() that built it
    target,       \* per connect() call: addr
    eff,          \* per connect() call: Option of effective_config
    snap,         \* per connect() call: value of `committed` when it resolved
    reads,        \* per connect() call: number of reads of CURRENT_PROXY
    calls,        \* per connect() call: addresses passed to inner.connect
    innerRes,     \* per connect() call: "none", "pending", "ok", "err" of inner.connect
    hs,           \* per connect() call: Option of the codec run and the credentials it used
    cres,         \* per connect() call: Option of the IoResult returned
    owner,        \* per connect() call: who holds the stream the wrapped provider opened
    wire,         \* per connect() call: the bytes the proxy sends on that stream, in order
    rxn,          \* per connect() call: number of bytes of `wire` the codec has read
    tx            \* per connect() call: the messages the codec has written, in order

svcVars  == <<ServiceState, tasks, spc, sargs, lastRet, provider, nStarts, nStops, stopAt>>
cellVars == <<cell, proxyLock, wpc, warg, committed, issued>>
connVars == <<cpc, ccfg, cstart, target, eff, snap, reads, calls, innerRes, hs, cres>>
codecVars == <<owner, wire, rxn, tx>>
vars     == <<ServiceState, tasks, spc, sargs, lastRet, provider, nStarts, nStops, stopAt,
              cell, proxyLock, wpc, warg, committed, issued,
              cpc, ccfg, cstart, target, eff, snap, reads, calls, innerRes, hs, cres,
              owner, wire, rxn, tx>>

-----------------------------------------------------------------------------
(* Bounds and input sets *)

MaxStarts == 3
MaxStops  == 2

Starters   == {"s1", "s2"}
Writers    == {"w1", "w2"}
Conns      == {"c1"}

Ports == {9050, 9150}

None == << >>
Some(x) == <<x>>
IsSome(o) == o # << >>
Unwrap(o) == o[1]
UnwrapOr(o, d) == IF o = << >> THEN d ELSE o[1]

\* String::default()
EmptyString == << >>
UserA == <<117>>
PassA == <<112>>
UserB == <<118>>

-----------------------------------------------------------------------------
(* bridge.rs / api/types.rs : ProxyInfo;  proxy_provider.rs : ProxyConfig *)

ProxyInfo(address, port, proxy_type, username, password) ==
    [address |-> address, port |-> port, proxy_type |-> proxy_type,
     username |-> username, password |-> password]

InfoA == ProxyInfo("10.0.0.1", 1080, "Socks5", Some(UserA), Some(PassA))
InfoB == ProxyInfo("10.0.0.2", 8080, "HttpConnect", None, None)
InfoC == ProxyInfo("proxy.local", 3128, "HttpConnect", Some(UserB), None)

ProxyInfos == {InfoA, InfoB, InfoC}
SetProxyArgs == {None} \cup {Some(p) : p \in ProxyInfos}

SocketAddr(ip, port) == [ip |-> ip, port |-> port]
TargetV4 == SocketAddr("192.0.2.7", 443)
TargetV6 == SocketAddr("2001:db8::7", 9001)
Targets == {TargetV4, TargetV6}

ProxyAuth(username, password) == [username |-> username, password |-> password]

Direct == [kind |-> "Direct"]
Socks5(proxy_addr, auth) == [kind |-> "Socks5", proxy_addr |-> proxy_addr, auth |-> auth]
HttpConnect(proxy_addr, auth) ==
    [kind |-> "HttpConnect", proxy_addr |-> proxy_addr, auth |-> auth]
Dynamic(callback) == [kind |-> "Dynamic", callback |-> callback]

\* The closure start() builds: it calls StaticProxyProvider::get_current_proxy.
GlobalCallback == [fn |-> "get_current_proxy"]
\* Any other ProxyCallback: here one that returns the same value for every target.
ConstCallback(ret) == [fn |-> "const", ret |-> ret]

\* The bytes a peer sends on a stream, then end of stream: the bytes of `head`,
\* then `pad` filler bytes, then the bytes of `tail`.
Wire(head, pad, tail) == [head |-> head, pad |-> pad, tail |-> tail]
NoWire == Wire(<< >>, 0, << >>)
WireLen(w) == Len(w.head) + w.pad + Len(w.tail)
WireAt(w, i) ==
    IF i <= Len(w.head) THEN w.head[i]
    ELSE IF i <= Len(w.head) + w.pad THEN 120
    ELSE w.tail[i - Len(w.head) - w.pad]

-----------------------------------------------------------------------------
(* manager.rs : CURRENT_PROXY and get_current_proxy *)

\* The memory of an Option<ProxyInfo>: the discriminant and the fields.
CellOf(arg) ==
    IF arg = None
    THEN [some |-> FALSE, address |-> "", port |-> 0, proxy_type |-> "Socks5",
          username |-> None, password |-> None]
    ELSE [some |-> TRUE, address |-> Unwrap(arg).address, port |-> Unwrap(arg).port,
          proxy_type |-> Unwrap(arg).proxy_type,
          username |-> Unwrap(arg).username, password |-> Unwrap(arg).password]

\* proxy_guard.as_ref()
CellValue(c) ==
    IF c.some
    THEN Some(ProxyInfo(c.address, c.port, c.proxy_type, c.username, c.password))
    ELSE None

\* format!("{}:{}", address, port)
FormatHostPort(address, port) == [host |-> address, port |-> port]

IPv4Literals == {"10.0.0.1", "10.0.0.2", "192.0.2.7"}
BracketedIPv6Literals == {"[::1]"}

\* <SocketAddr as FromStr>::parse(..).ok(): an IPv4 literal or a bracketed IPv6
\* literal before the colon; a host name or a bare IPv6 text does not parse.
ParseSocketAddr(s) ==
    IF s.host \in IPv4Literals \cup BracketedIPv6Literals
    THEN Some(SocketAddr(s.host, s.port))
    ELSE None

\* StaticProxyProvider::get_current_proxy on the value read under the lock.
GetCurrentProxy(cur) ==
    IF IsSome(cur)
    THEN LET proxy_info == Unwrap(cur)
             parsed == ParseSocketAddr(FormatHostPort(proxy_info.address, proxy_info.port))
             auth == IF IsSome(proxy_info.username) \/ IsSome(proxy_info.password)
                     THEN Some(ProxyAuth(UnwrapOr(proxy_info.username, EmptyString),
                                         UnwrapOr(proxy_info.password, EmptyString)))
                     ELSE None
         IN  IF parsed = None
             THEN None
             ELSE IF proxy_info.proxy_type = "Socks5"
                  THEN Some(Socks5(Unwrap(parsed), auth))
                  ELSE Some(HttpConnect(Unwrap(parsed), auth))
    ELSE None

\* CURRENT_PROXY.lock(): the mutex is granted only when nobody holds it.
\* (LockFreeBroken: a lock that excludes nobody.)
LockFreeBroken == TRUE
LockFree == proxyLock = {}

-----------------------------------------------------------------------------
(* manager.rs : start, stop and the spawned accept task *)

Ok(v) == [ok |-> TRUE, val |-> v]
Err(e) == [ok |-> FALSE, err |-> e]

\* start(): the ProxyConfig handed to ProxyTcpProvider::new.
\* (ProviderConfigAlwaysDynamic: the closure is installed whatever the flag.)
ProviderConfigAlwaysDynamic(use_system_proxy) == Dynamic(GlobalCallback)
ProviderConfig(use_system_proxy) ==
    IF use_system_proxy THEN Dynamic(GlobalCallback) ELSE Direct

\* start(): `return Ok(*port)` of the already-started branch.
\* (AlreadyStartedPortIgnoresState: returning the requested port instead.)
AlreadyStartedPortIgnoresState(state, socks_port) == socks_port
AlreadyStartedPort(state, socks_port) == Unwrap(state).port

\* JoinHandle::abort(): cancels a task that has not finished; no effect otherwise.
\* (AbortNothing: take() without abort(), which only detaches the task.)
AbortNothing(ts, handle) == ts
Abort(ts, handle) ==
    IF ts[handle].st \in {"spawned", "serving"}
    THEN [ts EXCEPT ![handle].st = "aborted", ![handle].cfg = None, ![handle].args = None]
    ELSE ts

Alive(t) == tasks[t].st \in {"spawned", "serving"}
AliveTasks == {t \in DOMAIN tasks : Alive(t)}

StartArgs(socks_port, use_system_proxy) ==
    [socks_port |-> socks_port, use_system_proxy |-> use_system_proxy]
Returned(args, value) == [args |-> args, value |-> value]

\* start() from its entry to its first suspension point: the STATE check, the
\* provider construction and cfg_builder.build()?.  `env_ok` is whether
\* TokioNativeTlsRuntime::current()? and build()? succeed.
StartCall(s, socks_port, use_system_proxy, env_ok) ==
    /\ spc[s] = "idle"
    /\ nStarts' = nStarts + 1
    /\ IF IsSome(ServiceState)
       THEN /\ lastRet' = Some(Returned(StartArgs(socks_port, use_system_proxy),
                                        Ok(AlreadyStartedPort(ServiceState, socks_port))))
            /\ UNCHANGED <<spc, sargs, provider>>
       ELSE IF ~env_ok
       THEN /\ lastRet' = Some(Returned(StartArgs(socks_port, use_system_proxy),
                                        Err("config")))
            /\ UNCHANGED <<spc, sargs, provider>>
       ELSE /\ spc' = [spc EXCEPT ![s] = "boot"]
            /\ sargs' = [sargs EXCEPT ![s] = Some(StartArgs(socks_port, use_system_proxy))]
            /\ provider' = [provider EXCEPT ![s] = Some(ProviderConfig(use_system_proxy))]
            /\ UNCHANGED lastRet
    /\ UNCHANGED <<ServiceState, tasks, nStops, stopAt>>
    /\ UNCHANGED cellVars
    /\ UNCHANGED connVars
    /\ UNCHANGED codecVars

\* create_bootstrapped().await returned Ok: spawn the accept task, record it in
\* STATE and return the port (no suspension point between these).
StartBootstrapped(s) ==
    /\ spc[s] = "boot"
    /\ LET handle == Len(tasks) + 1
           socks_port == Unwrap(sargs[s]).socks_port
       IN  /\ tasks' = Append(tasks, [port |-> socks_port, st |-> "spawned",
                                      cfg |-> provider[s], args |-> sargs[s]])
           /\ ServiceState' = Some([port |-> socks_port, handle |-> handle])
           /\ lastRet' = Some(Returned(Unwrap(sargs[s]), Ok(socks_port)))
    /\ spc' = [spc EXCEPT ![s] = "idle"]
    /\ sargs' = [sargs EXCEPT ![s] = None]
    /\ provider' = [provider EXCEPT ![s] = None]
    /\ UNCHANGED <<nStarts, nStops, stopAt>>
    /\ UNCHANGED cellVars
    /\ UNCHANGED connVars
    /\ UNCHANGED codecVars

\* create_bootstrapped().await? returned Err: the error goes to the caller.
StartBootstrapFailed(s) ==
    /\ spc[s] = "boot"
    /\ lastRet' = Some(Returned(Unwrap(sargs[s]), Err("bootstrap")))
    /\ spc' = [spc EXCEPT ![s] = "idle"]
    /\ sargs' = [sargs EXCEPT ![s] = None]
    /\ provider' = [provider EXCEPT ![s] = None]
    /\ UNCHANGED <<ServiceState, tasks, nStarts, nStops, stopAt>>
    /\ UNCHANGED cellVars
    /\ UNCHANGED connVars
    /\ UNCHANGED codecVars

\* stop(): STATE.lock().unwrap().take(), then handle.abort().
Stop ==
    /\ nStops' = nStops + 1
    /\ stopAt' = Some(nStarts)
    /\ IF IsSome(ServiceState)
       THEN /\ tasks' = Abort(tasks, Unwrap(ServiceState).handle)
            /\ ServiceState' = None
       ELSE UNCHANGED <<ServiceState, tasks>>
    /\ UNCHANGED <<spc, sargs, lastRet, provider, nStarts>>
    /\ UNCHANGED cellVars
    /\ UNCHANGED connVars
    /\ UNCHANGED codecVars

\* The spawned task, socks::run_socks_proxy(.., Listen::new_localhost(port), ..):
\* it binds the port, which no other listener of this process may hold.
PortFree(p) == \A t \in DOMAIN tasks : ~(tasks[t].st = "serving" /\ tasks[t].port = p)

TaskBind(t) ==
    /\ tasks[t].st = "spawned"
    /\ PortFree(tasks[t].port)
    /\ tasks' = [tasks EXCEPT ![t].st = "serving"]
    /\ UNCHANGED <<ServiceState, spc, sargs, lastRet, provider, nStarts, nStops, stopAt>>
    /\ UNCHANGED cellVars
    /\ UNCHANGED connVars
    /\ UNCHANGED codecVars

\* The bind fails (the port is held by this or another process): the task ends
\* with the error, which nobody awaits.
TaskBindFail(t) ==
    /\ tasks[t].st = "spawned"
    /\ tasks' = [tasks EXCEPT ![t].st = "failed", ![t].cfg = None, ![t].args = None]
    /\ UNCHANGED <<ServiceState, spc, sargs, lastRet, provider, nStarts, nStops, stopAt>>
    /\ UNCHANGED cellVars
    /\ UNCHANGED connVars
    /\ UNCHANGED codecVars

-----------------------------------------------------------------------------
(* manager.rs : set_proxy *)

\* set_proxy(): CURRENT_PROXY.lock()
SetProxyLock(w, proxy) ==
    /\ wpc[w] = "idle"
    /\ LockFree
    /\ proxyLock' = proxyLock \cup {w}
    /\ wpc' = [wpc EXCEPT ![w] = "locked"]
    /\ warg' = [warg EXCEPT ![w] = proxy]
    /\ issued' = issued \cup {proxy}
    /\ UNCHANGED <<cell, committed>>
    /\ UNCHANGED svcVars
    /\ UNCHANGED connVars
    /\ UNCHANGED codecVars

\* set_proxy(): `*current = proxy` moves a value of several words; it is not one
\* store.  Here the discriminant, address and port are stored first ...
SetProxyAssignFirst(w) ==
    /\ wpc[w] = "locked"
    /\ cell' = [cell EXCEPT !.some = CellOf(warg[w]).some,
                            !.address = CellOf(warg[w]).address,
                            !.port = CellOf(warg[w]).port]
    /\ wpc' = [wpc EXCEPT ![w] = "half"]
    /\ UNCHANGED <<proxyLock, warg, committed, issued>>
    /\ UNCHANGED svcVars
    /\ UNCHANGED connVars
    /\ UNCHANGED codecVars

\* ... then the proxy type and the credentials; the guard is dropped on return.
SetProxyAssignRest(w) ==
    /\ wpc[w] = "half"
    /\ cell' = [cell EXCEPT !.proxy_type = CellOf(warg[w]).proxy_type,
                            !.username = CellOf(warg[w]).username,
                            !.password = CellOf(warg[w]).password]
    /\ committed' = warg[w]
    /\ proxyLock' = proxyLock \ {w}
    /\ wpc' = [wpc EXCEPT ![w] = "idle"]
    /\ warg' = [warg EXCEPT ![w] = None]
    /\ UNCHANGED issued
    /\ UNCHANGED svcVars
    /\ UNCHANGED connVars
    /\ UNCHANGED codecVars

-----------------------------------------------------------------------------
(* proxy_provider.rs : ProxyTcpProvider::connect *)

IsDynamic(cfg) == cfg.kind = "Dynamic"
ReadsGlobalState(cfg) == IsDynamic(cfg) /\ cfg.callback.fn = "get_current_proxy"

\* connect(): `effective_config`, given what callback.get_proxy(&addr) returned.
\* (EffectiveConfigUnresolved: the callback's answer is dropped.)
EffectiveConfigUnresolved(proxy_config, callback_result) == proxy_config
EffectiveConfig(proxy_config, callback_result) ==
    IF IsDynamic(proxy_config)
    THEN UnwrapOr(callback_result, Direct)
    ELSE proxy_config

\* connect(): the address handed to the wrapped provider's connect.
DialAddr(effective_config, addr) ==
    IF effective_config.kind = "Direct" THEN addr ELSE effective_config.proxy_addr

\* The guard `proxy_guard` is dropped when get_current_proxy returns.
\* (GuardKeptAfterResolve: the guard outlives the call.)
GuardKeptAfterResolve(c) == proxyLock
GuardDroppedAfterResolve(c) == proxyLock \ {c}

\* connect_socks5 / connect_http: the `auth` argument, taken from effective_config.
\* (HandshakeAuthFromCurrentState: the codec looks the credentials up again.)
HandshakeAuthFromCurrentState(c) ==
    LET now == GetCurrentProxy(CellValue(cell))
    IN  IF IsSome(now) THEN Unwrap(now).auth ELSE None
HandshakeAuth(c) == Unwrap(eff[c]).auth

\* IoResult<Stream>: the stream is the one the wrapped provider opened to `peer`.
OkStream(peer) == [ok |-> TRUE, peer |-> peer]

\* A call of connect(&addr) on a provider whose configuration is proxy_config.
\* `built_by` is the arguments of the start() call that built the provider, or
\* None for a provider built otherwise.
ConnBeginOn(c, built_by, proxy_config, addr) ==
    /\ cpc[c] \in {"idle", "done", "panicked"}
    /\ cpc' = [cpc EXCEPT ![c] = "resolve"]
    /\ ccfg' = [ccfg EXCEPT ![c] = proxy_config]
    /\ cstart' = [cstart EXCEPT ![c] = built_by]
    /\ target' = [target EXCEPT ![c] = addr]
    /\ eff' = [eff EXCEPT ![c] = None]
    /\ snap' = [snap EXCEPT ![c] = None]
    /\ reads' = [reads EXCEPT ![c] = 0]
    /\ calls' = [calls EXCEPT ![c] = << >>]
    /\ innerRes' = [innerRes EXCEPT ![c] = "none"]
    /\ hs' = [hs EXCEPT ![c] = None]
    /\ cres' = [cres EXCEPT ![c] = None]
    /\ owner' = [owner EXCEPT ![c] = "none"]
    /\ wire' = [wire EXCEPT ![c] = NoWire]
    /\ rxn' = [rxn EXCEPT ![c] = 0]
    /\ tx' = [tx EXCEPT ![c] = << >>]
    /\ UNCHANGED svcVars
    /\ UNCHANGED cellVars

ConnBegin(c, proxy_config, addr) == ConnBeginOn(c, None, proxy_config, addr)

\* connect(): the `match effective_config`, up to the first suspension point:
\* the wrapped provider's connect is called, or unreachable!() panics.
Dispatch(c, effective_config) ==
    /\ eff' = [eff EXCEPT ![c] = Some(effective_config)]
    /\ IF IsDynamic(effective_config)
       THEN /\ cpc' = [cpc EXCEPT ![c] = "panicked"]
            /\ UNCHANGED <<calls, innerRes>>
       ELSE /\ cpc' = [cpc EXCEPT ![c] = "connecting"]
            /\ calls' = [calls EXCEPT ![c] = Append(@, DialAddr(effective_config, target[c]))]
            /\ innerRes' = [innerRes EXCEPT ![c] = "pending"]
    /\ UNCHANGED <<ccfg, cstart, target, hs, cres>>

\* connect() under a configuration that does not read CURRENT_PROXY.
ConnResolve(c) ==
    /\ cpc[c] = "resolve"
    /\ ~ReadsGlobalState(ccfg[c])
    /\ Dispatch(c, EffectiveConfig(ccfg[c],
                     IF IsDynamic(ccfg[c]) THEN ccfg[c].callback.ret ELSE None))
    /\ UNCHANGED <<snap, reads>>
    /\ UNCHANGED svcVars
    /\ UNCHANGED cellVars
    /\ UNCHANGED codecVars

\* connect() under start()'s closure: get_current_proxy takes the lock ...
ConnLockProxy(c) ==
    /\ cpc[c] = "resolve"
    /\ ReadsGlobalState(ccfg[c])
    /\ LockFree
    /\ proxyLock' = proxyLock \cup {c}
    /\ cpc' = [cpc EXCEPT ![c] = "locked"]
    /\ UNCHANGED <<ccfg, cstart, target, eff, snap, reads, calls, innerRes, hs, cres>>
    /\ UNCHANGED <<cell, wpc, warg, committed, issued>>
    /\ UNCHANGED svcVars
    /\ UNCHANGED codecVars

\* ... reads the value, converts it and returns, and connect() dispatches on it.
ConnReadProxy(c) ==
    /\ cpc[c] = "locked"
    /\ reads' = [reads EXCEPT ![c] = @ + 1]
    /\ snap' = [snap EXCEPT ![c] = Some(committed)]
    /\ proxyLock' = GuardDroppedAfterResolve(c)
    /\ Dispatch(c, EffectiveConfig(ccfg[c], GetCurrentProxy(CellValue(cell))))
    /\ UNCHANGED <<cell, wpc, warg, committed, issued>>
    /\ UNCHANGED svcVars
    /\ UNCHANGED codecVars

\* The wrapped provider's connect returns: the result itself under Direct; under
\* Socks5 / HttpConnect an error ends the call (`?`), a stream starts the codec.
ConnConnected(c, ok) ==
    /\ cpc[c] = "connecting"
    /\ innerRes' = [innerRes EXCEPT ![c] = IF ok THEN "ok" ELSE "err"]
    /\ IF Unwrap(eff[c]).kind = "Direct" \/ ~ok
       THEN /\ cpc' = [cpc EXCEPT ![c] = "done"]
            /\ cres' = [cres EXCEPT ![c] =
                          Some(IF ok THEN OkStream(calls[c][Len(calls[c])])
                                     ELSE Err("connect"))]
            /\ owner' = [owner EXCEPT ![c] = IF ok THEN "caller" ELSE "none"]
       ELSE /\ cpc' = [cpc EXCEPT ![c] = "handshake"]
            /\ owner' = [owner EXCEPT ![c] = "codec"]
            /\ UNCHANGED cres
    /\ UNCHANGED <<ccfg, cstart, target, eff, snap, reads, calls, hs>>
    /\ UNCHANGED <<wire, rxn, tx>>
    /\ UNCHANGED svcVars
    /\ UNCHANGED cellVars

\* connect_socks5 / connect_http after the proxy stream is open, as one step:
\* the codec runs with the credentials of effective_config and ends in
\* Ok(stream) or an error.  (The codecs are modelled byte by byte further down.)
ConnHandshake(c, ok) ==
    /\ cpc[c] = "handshake"
    /\ hs' = [hs EXCEPT ![c] = Some([kind |-> Unwrap(eff[c]).kind,
                                     auth |-> HandshakeAuth(c)])]
    /\ cpc' = [cpc EXCEPT ![c] = "done"]
    /\ cres' = [cres EXCEPT ![c] =
                  Some(IF ok THEN OkStream(calls[c][Len(calls[c])])
                             ELSE Err("handshake"))]
    /\ owner' = [owner EXCEPT ![c] = IF ok THEN "caller" ELSE "dropped"]
    /\ UNCHANGED <<ccfg, cstart, target, eff, snap, reads, calls, innerRes>>
    /\ UNCHANGED <<wire, rxn, tx>>
    /\ UNCHANGED svcVars
    /\ UNCHANGED cellVars

-----------------------------------------------------------------------------
(* proxy_provider.rs : the stream helpers and connect_socks5, byte by byte *)

\* `as u8` keeps the low eight bits.
U8 == 256
AsU8(n) == n % U8

IoError(kind, msg) == [kind |-> kind, msg |-> msg]

\* read_exact(stream, buf) with buf of n bytes: the next n bytes of the stream,
\* or an error when the stream ends before n bytes came.
CanRead(c, n) == rxn[c] + n <= WireLen(wire[c])
ReadBytes(c, n) == [i \in 1..n |-> WireAt(wire[c], rxn[c] + i)]
UnexpectedEof == IoError("UnexpectedEof", "read_exact")
WriteFailed == IoError("BrokenPipe", "write_all")

\* write_all(stream, data) that succeeded: the message is on the wire.
Written(c, data) == tx' = [tx EXCEPT ![c] = Append(@, data)]

\* `return Err(e)` and `?` on an error: the codec's stream is dropped with its frame.
\* (CodecReturnErrKeepsStream: an error return that leaves the stream with the caller.)
CodecReturnErrKeepsStream(c, e) ==
    /\ cpc' = [cpc EXCEPT ![c] = "done"]
    /\ cres' = [cres EXCEPT ![c] = Some(Err(e))]
    /\ owner' = [owner EXCEPT ![c] = "caller"]
CodecReturnErr(c, e) ==
    /\ cpc' = [cpc EXCEPT ![c] = "done"]
    /\ cres' = [cres EXCEPT ![c] = Some(Err(e))]
    /\ owner' = [owner EXCEPT ![c] = "dropped"]

\* `Ok(stream)`: the stream moves to the caller of connect().
CodecReturnOk(c) ==
    /\ cpc' = [cpc EXCEPT ![c] = "done"]
    /\ cres' = [cres EXCEPT ![c] = Some(OkStream(calls[c][Len(calls[c])]))]
    /\ owner' = [owner EXCEPT ![c] = "caller"]

\* A panic inside the codec: connect() returns nothing, unwinding drops the stream.
CodecPanic(c) ==
    /\ cpc' = [cpc EXCEPT ![c] = "panicked"]
    /\ owner' = [owner EXCEPT ![c] = "dropped"]
    /\ UNCHANGED cres

\* The codec goes on to its next suspension point.
\* (CodecGotoPipelined: a codec that writes the CONNECT request without waiting
\* for the method reply.)
CodecGotoPipelined(c, pos) ==
    /\ cpc' = [cpc EXCEPT ![c] = IF pos = "s5_method_reply" THEN "s5_write_request" ELSE pos]
    /\ UNCHANGED <<cres, owner>>
CodecGoto(c, pos) ==
    /\ cpc' = [cpc EXCEPT ![c] = pos]
    /\ UNCHANGED <<cres, owner>>

\* The first step of either codec records the codec and the credentials it runs with.
CodecEnter(c, script) ==
    /\ hs' = [hs EXCEPT ![c] = Some([kind |-> Unwrap(eff[c]).kind,
                                     auth |-> HandshakeAuth(c)])]
    /\ wire' = [wire EXCEPT ![c] = script]

\* `let methods = [..]`: version, count, methods.
\* (MethodSelectionByContent: the offer decided by the username being non-empty.)
MethodSelectionByContent(auth) ==
    IF IsSome(auth) /\ Unwrap(auth).username # EmptyString
    THEN <<5, 2, 0, 2>>
    ELSE <<5, 1, 0>>
MethodSelection(auth) ==
    IF IsSome(auth) THEN <<5, 2, 0, 2>> ELSE <<5, 1, 0>>

\* The branches on the two-byte method reply: the next step, or the error.
\* (AfterMethodReplyIgnoresVersion: without the test of response[0].)
AfterMethodReplyIgnoresVersion(auth, response) ==
    IF IsSome(auth)
    THEN IF response[2] = 2 THEN Ok("s5_write_auth")
         ELSE IF response[2] # 0
              THEN Err(IoError("Other", "No acceptable SOCKS5 methods"))
              ELSE Ok("s5_write_request")
    ELSE IF response[2] # 0
         THEN Err(IoError("Other", "SOCKS5 handshake failed"))
         ELSE Ok("s5_write_request")
AfterMethodReply(auth, response) ==
    IF IsSome(auth)
    THEN IF response[1] # 5
         THEN Err(IoError("Other", "Invalid SOCKS5 version"))
         ELSE IF response[2] = 2 THEN Ok("s5_write_auth")
              ELSE IF response[2] # 0
                   THEN Err(IoError("Other", "No acceptable SOCKS5 methods"))
                   ELSE Ok("s5_write_request")
    ELSE IF response[1] # 5 \/ response[2] # 0
         THEN Err(IoError("Other", "SOCKS5 handshake failed"))
         ELSE Ok("s5_write_request")

\* auth_req: version 1, length byte and bytes of the username, the same of the password.
AuthRequest(auth) ==
    <<1, AsU8(Len(auth.username))>> \o auth.username
        \o <<AsU8(Len(auth.password))>> \o auth.password

\* The test of auth_resp[1].
\* (AfterAuthReplyAcceptsAll: a sub-negotiation that never fails.)
AfterAuthReplyAcceptsAll(auth_resp) == Ok("s5_write_request")
AfterAuthReply(auth_resp) ==
    IF auth_resp[2] # 0
    THEN Err(IoError("PermissionDenied", "SOCKS5 auth failed"))
    ELSE Ok("s5_write_request")

\* IpAddr::V4 / IpAddr::V6 of the target and ip.octets().
IsV4(addr) == addr.ip \in IPv4Literals
Octets(addr) ==
    IF addr.ip = "192.0.2.7" THEN <<192, 0, 2, 7>>
    ELSE IF addr.ip = "10.0.0.1" THEN <<10, 0, 0, 1>>
    ELSE IF addr.ip = "10.0.0.2" THEN <<10, 0, 0, 2>>
    ELSE IF addr.ip = "2001:db8::7"
         THEN <<32, 1, 13, 184, 0, 0, 0, 0, 0, 0, 0, 0, 0, 0, 0, 7>>
         ELSE <<0, 0, 0, 0, 0, 0, 0, 0, 0, 0, 0, 0, 0, 0, 0, 1>>

\* port.to_be_bytes()
PortBytes(port) == <<port \div U8, port % U8>>

\* The CONNECT request: version, command, reserved, address type, address, port.
ConnectRequest(target_addr) ==
    <<5, 1, 0>>
        \o (IF IsV4(target_addr) THEN <<1>> ELSE <<4>>)
        \o Octets(target_addr)
        \o PortBytes(target_addr.port)

\* `let mut response = [0u8; 10]` and the slices of it the bound address is read into.
ResponseBufLen == 10
BoundV4Len == 6
BoundV6Len == 18

\* &mut response[0..n] is in range of the array.
SliceInRange(n) == n <= ResponseBufLen

\* The branches on the four-byte head of the CONNECT reply.
AfterReplyHead(response) ==
    IF response[1] # 5
    THEN Err(IoError("Other", "Invalid SOCKS5 response"))
    ELSE IF response[2] # 0
         THEN Err(IoError("Other", <<"SOCKS5 connection failed", response[2]>>))
         ELSE IF response[4] = 1 THEN Ok([pos |-> "s5_bound", n |-> BoundV4Len])
              ELSE IF response[4] = 4 THEN Ok([pos |-> "s5_bound", n |-> BoundV6Len])
              ELSE IF response[4] = 3 THEN Ok([pos |-> "s5_domain_len", n |-> 1])
              ELSE Err(IoError("Other", "Unknown SOCKS5 address type"))

\* connect_socks5: write_all of the method selection.
Socks5WriteMethods(c, script, ok) ==
    /\ cpc[c] = "handshake"
    /\ Unwrap(eff[c]).kind = "Socks5"
    /\ CodecEnter(c, script)
    /\ IF ok
       THEN Written(c, MethodSelection(HandshakeAuth(c))) /\ CodecGoto(c, "s5_method_reply")
       ELSE UNCHANGED tx /\ CodecReturnErr(c, WriteFailed)
    /\ UNCHANGED <<ccfg, cstart, target, eff, snap, reads, calls, innerRes, rxn>>
    /\ UNCHANGED svcVars
    /\ UNCHANGED cellVars

\* read_exact of the method reply and the branches on it.
Socks5ReadMethodReply(c) ==
    /\ cpc[c] = "s5_method_reply"
    /\ IF CanRead(c, 2)
       THEN /\ rxn' = [rxn EXCEPT ![c] = @ + 2]
            /\ LET next == AfterMethodReply(HandshakeAuth(c), ReadBytes(c, 2))
               IN  IF next.ok THEN CodecGoto(c, next.val) ELSE CodecReturnErr(c, next.err)
       ELSE /\ rxn' = [rxn EXCEPT ![c] = WireLen(wire[c])]
            /\ CodecReturnErr(c, UnexpectedEof)
    /\ UNCHANGED <<ccfg, cstart, target, eff, snap, reads, calls, innerRes, hs, wire, tx>>
    /\ UNCHANGED svcVars
    /\ UNCHANGED cellVars

\* write_all of the username/password request.
Socks5WriteAuth(c, ok) ==
    /\ cpc[c] = "s5_write_auth"
    /\ IF ok
       THEN Written(c, AuthRequest(Unwrap(HandshakeAuth(c)))) /\ CodecGoto(c, "s5_auth_reply")
       ELSE UNCHANGED tx /\ CodecReturnErr(c, WriteFailed)
    /\ UNCHANGED <<ccfg, cstart, target, eff, snap, reads, calls, innerRes, hs, wire, rxn>>
    /\ UNCHANGED svcVars
    /\ UNCHANGED cellVars

\* read_exact of the sub-negotiation reply and the test of its status.
Socks5ReadAuthReply(c) ==
    /\ cpc[c] = "s5_auth_reply"
    /\ IF CanRead(c, 2)
       THEN /\ rxn' = [rxn EXCEPT ![c] = @ + 2]
            /\ LET next == AfterAuthReply(ReadBytes(c, 2))
               IN  IF next.ok THEN CodecGoto(c, next.val) ELSE CodecReturnErr(c, next.err)
       ELSE /\ rxn' = [rxn EXCEPT ![c] = WireLen(wire[c])]
            /\ CodecReturnErr(c, UnexpectedEof)
    /\ UNCHANGED <<ccfg, cstart, target, eff, snap, reads, calls, innerRes, hs, wire, tx>>
    /\ UNCHANGED svcVars
    /\ UNCHANGED cellVars

\* write_all of the CONNECT request.
Socks5WriteRequest(c, ok) ==
    /\ cpc[c] = "s5_write_request"
    /\ IF ok
       THEN Written(c, ConnectRequest(target[c])) /\ CodecGoto(c, "s5_reply")
       ELSE UNCHANGED tx /\ CodecReturnErr(c, WriteFailed)
    /\ UNCHANGED <<ccfg, cstart, target, eff, snap, reads, calls, innerRes, hs, wire, rxn>>
    /\ UNCHANGED svcVars
    /\ UNCHANGED cellVars

\* read_exact of the head of the reply, the branches on it, and the slice of
\* `response` the rest is to be read into: a slice out of range panics.
Socks5ReadReplyHead(c) ==
    /\ cpc[c] = "s5_reply"
    /\ IF CanRead(c, 4)
       THEN /\ rxn' = [rxn EXCEPT ![c] = @ + 4]
            /\ LET next == AfterReplyHead(ReadBytes(c, 4))
               IN  IF ~next.ok THEN CodecReturnErr(c, next.err)
                   ELSE IF next.val.pos = "s5_bound" /\ ~SliceInRange(next.val.n)
                        THEN CodecPanic(c)
                        ELSE CodecGoto(c, next.val.pos)
       ELSE /\ rxn' = [rxn EXCEPT ![c] = WireLen(wire[c])]
            /\ CodecReturnErr(c, UnexpectedEof)
    /\ UNCHANGED <<ccfg, cstart, target, eff, snap, reads, calls, innerRes, hs, wire, tx>>
    /\ UNCHANGED svcVars
    /\ UNCHANGED cellVars

\* The address type of the reply whose head was read last.
ReplyAtyp(c) == WireAt(wire[c], rxn[c])

\* read_exact of the bound IPv4 / IPv6 address and port, then Ok(stream).
Socks5ReadBound(c) ==
    /\ cpc[c] = "s5_bound"
    /\ LET n == AfterReplyHead(<<5, 0, 0, ReplyAtyp(c)>>).val.n
       IN  IF CanRead(c, n)
           THEN rxn' = [rxn EXCEPT ![c] = @ + n] /\ CodecReturnOk(c)
           ELSE rxn' = [rxn EXCEPT ![c] = WireLen(wire[c])] /\ CodecReturnErr(c, UnexpectedEof)
    /\ UNCHANGED <<ccfg, cstart, target, eff, snap, reads, calls, innerRes, hs, wire, tx>>
    /\ UNCHANGED svcVars
    /\ UNCHANGED cellVars

\* read_exact of the length byte of a bound domain name.
Socks5ReadDomainLen(c) ==
    /\ cpc[c] = "s5_domain_len"
    /\ IF CanRead(c, 1)
       THEN rxn' = [rxn EXCEPT ![c] = @ + 1] /\ CodecGoto(c, "s5_domain")
       ELSE rxn' = [rxn EXCEPT ![c] = WireLen(wire[c])] /\ CodecReturnErr(c, UnexpectedEof)
    /\ UNCHANGED <<ccfg, cstart, target, eff, snap, reads, calls, innerRes, hs, wire, tx>>
    /\ UNCHANGED svcVars
    /\ UNCHANGED cellVars

\* read_exact of the domain name and port (len[0] + 2 bytes), then Ok(stream).
Socks5ReadDomain(c) ==
    /\ cpc[c] = "s5_domain"
    /\ LET n == WireAt(wire[c], rxn[c]) + 2
       IN  IF CanRead(c, n)
           THEN rxn' = [rxn EXCEPT ![c] = @ + n] /\ CodecReturnOk(c)
           ELSE rxn' = [rxn EXCEPT ![c] = WireLen(wire[c])] /\ CodecReturnErr(c, UnexpectedEof)
    /\ UNCHANGED <<ccfg, cstart, target, eff, snap, reads, calls, innerRes, hs, wire, tx>>
    /\ UNCHANGED svcVars
    /\ UNCHANGED cellVars

-----------------------------------------------------------------------------
(* proxy_provider.rs : connect_http, byte by byte *)

CRLF == <<13, 10>>

\* base64::engine::general_purpose::STANDARD.encode: three bytes to four sextets,
\* the last group padded with '=' (written 64).
RECURSIVE Base64(_)
Base64(b) ==
    IF Len(b) = 0 THEN << >>
    ELSE IF Len(b) = 1
         THEN <<b[1] \div 4, (b[1] % 4) * 16, 64, 64>>
    ELSE IF Len(b) = 2
         THEN <<b[1] \div 4, (b[1] % 4) * 16 + b[2] \div 16, (b[2] % 16) * 4, 64>>
    ELSE <<b[1] \div 4, (b[1] % 4) * 16 + b[2] \div 16,
           (b[2] % 16) * 4 + b[3] \div 64, b[3] % 64>>
             \o Base64(SubSeq(b, 4, Len(b)))

\* format!("{}:{}", auth.username, auth.password)
Credentials(auth) == auth.username \o <<58>> \o auth.password

\* The request text, line by line: the CONNECT line, the Host header, the
\* Proxy-Authorization header when credentials are present; the empty line ends it.
HttpRequest(target_addr, auth) ==
    <<[h |-> "CONNECT", v |-> FormatHostPort(target_addr.ip, target_addr.port)],
      [h |-> "Host", v |-> FormatHostPort(target_addr.ip, target_addr.port)]>>
        \o (IF IsSome(auth)
            THEN <<[h |-> "Proxy-Authorization",
                    v |-> [scheme |-> "Basic", b64 |-> Base64(Credentials(Unwrap(auth)))]]>>
            ELSE << >>)

\* `if response.len() > 8192`
HttpMaxResponse == 8192

\* `response` after n one-byte reads: the first n bytes of the stream.
ResponseEndsHeaders(w, n) ==
    /\ n >= 4
    /\ [i \in 1..4 |-> WireAt(w, n - 4 + i)] = CRLF \o CRLF

\* String::from_utf8_lossy, for streams whose bytes above 127 are never part of
\* a well-formed sequence: each one becomes U+FFFD.
FromUtf8Lossy(b) == [i \in 1..Len(b) |-> IF b[i] < 128 THEN b[i] ELSE 65533]

\* str::starts_with
StartsWith(s, prefix) ==
    /\ Len(s) >= Len(prefix)
    /\ SubSeq(s, 1, Len(prefix)) = prefix

Http11Ok == <<72, 84, 84, 80, 47, 49, 46, 49, 32, 50, 48, 48>>
Http10Ok == <<72, 84, 84, 80, 47, 49, 46, 48, 32, 50, 48, 48>>

\* response_str.lines().next().unwrap_or(""): the text before the first "\n",
\* without the "\r" that may precede it.  The response ends in "\r\n\r\n".
FirstLine(w, n) ==
    LET lf == CHOOSE i \in 1..n :
                  WireAt(w, i) = 10 /\ \A j \in 1..(i - 1) : WireAt(w, j) # 10
        end == IF lf > 1 /\ WireAt(w, lf - 1) = 13 THEN lf - 2 ELSE lf - 1
    IN  FromUtf8Lossy([i \in 1..end |-> WireAt(w, i)])

\* The test of the status line once the headers ended.
\* (HttpStatusAcceptsAll: a codec that takes any terminated response for success.)
HttpStatusAcceptsAll(w, n) == Ok("stream")
HttpStatus(w, n) ==
    LET response_str == FromUtf8Lossy([i \in 1..(IF n < 12 THEN n ELSE 12) |-> WireAt(w, i)])
    IN  IF ~StartsWith(response_str, Http11Ok) /\ ~StartsWith(response_str, Http10Ok)
        THEN Err(IoError("Other", <<"HTTP CONNECT failed", FirstLine(w, n)>>))
        ELSE Ok("stream")

\* connect_http: write_all of the request.
HttpWriteRequest(c, script, ok) ==
    /\ cpc[c] = "handshake"
    /\ Unwrap(eff[c]).kind = "HttpConnect"
    /\ CodecEnter(c, script)
    /\ IF ok
       THEN Written(c, HttpRequest(target[c], HandshakeAuth(c))) /\ CodecGoto(c, "http_read")
       ELSE UNCHANGED tx /\ CodecReturnErr(c, WriteFailed)
    /\ UNCHANGED <<ccfg, cstart, target, eff, snap, reads, calls, innerRes, rxn>>
    /\ UNCHANGED svcVars
    /\ UNCHANGED cellVars

\* One turn of the read loop: read_exact of one byte, the push, the test for
\* "\r\n\r\n" (then the status line decides), then the test of the length.
HttpReadByte(c) ==
    /\ cpc[c] = "http_read"
    /\ IF CanRead(c, 1)
       THEN /\ rxn' = [rxn EXCEPT ![c] = @ + 1]
            /\ IF ResponseEndsHeaders(wire[c], rxn[c] + 1)
               THEN LET verdict == HttpStatus(wire[c], rxn[c] + 1)
                    IN  IF verdict.ok THEN CodecReturnOk(c)
                        ELSE CodecReturnErr(c, verdict.err)
               ELSE IF rxn[c] + 1 > HttpMaxResponse
                    THEN CodecReturnErr(c, IoError("Other", "HTTP response too large"))
                    ELSE CodecGoto(c, "http_read")
       ELSE /\ UNCHANGED rxn
            /\ CodecReturnErr(c, UnexpectedEof)
    /\ UNCHANGED <<ccfg, cstart, target, eff, snap, reads, calls, innerRes, hs, wire, tx>>
    /\ UNCHANGED svcVars
    /\ UNCHANGED cellVars

-----------------------------------------------------------------------------
(* Specifications *)

\* Everything but CURRENT_PROXY: no service, no call in progress.
InitIdle ==
    /\ ServiceState = None
    /\ tasks = << >>
    /\ spc = [s \in Starters |-> "idle"]
    /\ sargs = [s \in Starters |-> None]
    /\ lastRet = None
    /\ provider = [s \in Starters |-> None]
    /\ nStarts = 0
    /\ nStops = 0
    /\ stopAt = None
    /\ proxyLock = {}
    /\ wpc = [w \in Writers |-> "idle"]
    /\ warg = [w \in Writers |-> None]
    /\ cpc = [c \in Conns |-> "idle"]
    /\ ccfg = [c \in Conns |-> Direct]
    /\ cstart = [c \in Conns |-> None]
    /\ target = [c \in Conns |-> TargetV4]
    /\ eff = [c \in Conns |-> None]
    /\ snap = [c \in Conns |-> None]
    /\ reads = [c \in Conns |-> 0]
    /\ calls = [c \in Conns |-> << >>]
    /\ innerRes = [c \in Conns |-> "none"]
    /\ hs = [c \in Conns |-> None]
    /\ cres = [c \in Conns |-> None]
    /\ owner = [c \in Conns |-> "none"]
    /\ wire = [c \in Conns |-> NoWire]
    /\ rxn = [c \in Conns |-> 0]
    /\ tx = [c \in Conns |-> << >>]

\* The state of a fresh process: CURRENT_PROXY is None.
Init ==
    /\ InitIdle
    /\ cell = CellOf(None)
    /\ committed = None
    /\ issued = {}

\* Every ProxyConfig variant: the two that start() builds, static proxies with and
\* without credentials, and callbacks returning None, a proxy, and a Dynamic.
ProxyAddrA == SocketAddr("10.0.0.1", 1080)
ProviderConfigs ==
    {ProviderConfig(FALSE), ProviderConfig(TRUE),
     Socks5(ProxyAddrA, Some(ProxyAuth(UserA, PassA))),
     HttpConnect(ProxyAddrA, None),
     Dynamic(ConstCallback(None)),
     Dynamic(ConstCallback(Some(Socks5(ProxyAddrA, None)))),
     Dynamic(ConstCallback(Some(Dynamic(ConstCallback(None)))))}

\* The service: start(), stop() and the accept tasks.
Next ==
    \/ \E s \in Starters, p \in Ports, u \in BOOLEAN, e \in BOOLEAN :
            nStarts < MaxStarts /\ StartCall(s, p, u, e)
    \/ \E s \in Starters : StartBootstrapped(s)
    \/ \E s \in Starters : StartBootstrapFailed(s)
    \/ nStops < MaxStops /\ Stop
    \/ \E t \in DOMAIN tasks : TaskBind(t)
    \/ \E t \in DOMAIN tasks : TaskBindFail(t)

Spec == Init /\ [][Next]_vars

\* The provider: connect() calls on providers of every configuration, with
\* set_proxy() calls running beside them.
ProviderNext ==
    \/ \E w \in Writers, a \in SetProxyArgs : SetProxyLock(w, a)
    \/ \E w \in Writers : SetProxyAssignFirst(w)
    \/ \E w \in Writers : SetProxyAssignRest(w)
    \/ \E c \in Conns, cfg \in ProviderConfigs, addr \in Targets : ConnBegin(c, cfg, addr)
    \/ \E c \in Conns : ConnResolve(c)
    \/ \E c \in Conns : ConnLockProxy(c)
    \/ \E c \in Conns : ConnReadProxy(c)
    \/ \E c \in Conns, ok \in BOOLEAN : ConnConnected(c, ok)
    \/ \E c \in Conns, ok \in BOOLEAN : ConnHandshake(c, ok)

ProviderSpec == Init /\ [][ProviderNext]_vars

\* Credentials of 256 and of 300 bytes.
LongUser == [i \in 1..256 |-> 117]
LongPass == [i \in 1..300 |-> 112]

InfoSocksPlain == ProxyInfo("10.0.0.1", 1080, "Socks5", None, None)
InfoSocksUserOnly == ProxyInfo("10.0.0.1", 1080, "Socks5", Some(UserB), None)
InfoSocksEmpty == ProxyInfo("10.0.0.1", 1080, "Socks5", Some(EmptyString), Some(EmptyString))
InfoSocksLong == ProxyInfo("10.0.0.1", 1080, "Socks5", Some(LongUser), Some(LongPass))
InfoHttpAuth == ProxyInfo("10.0.0.2", 8080, "HttpConnect", Some(UserA), Some(PassA))
InfoHttpPassOnly == ProxyInfo("[::1]", 8080, "HttpConnect", None, Some(PassA))

\* The values of CURRENT_PROXY the codecs are run under.
CodecInfos ==
    {InfoA, InfoB, InfoC, InfoSocksPlain, InfoSocksUserOnly, InfoSocksEmpty,
     InfoSocksLong, InfoHttpAuth, InfoHttpPassOnly}
CodecArgs == {None} \cup {Some(p) : p \in CodecInfos}

\* The state after tor_set_proxy(a) on a fresh process.
InitAfterSetProxy(a) ==
    /\ InitIdle
    /\ cell = CellOf(a)
    /\ committed = a
    /\ issued = {a}

\* The providers the codecs are run on: the two start() builds, and a callback
\* returning a Dynamic.
CodecConfigs ==
    {ProviderConfig(TRUE), ProviderConfig(FALSE),
     Dynamic(ConstCallback(Some(Dynamic(ConstCallback(None)))))}

\* What a SOCKS5 proxy may send: a method reply, an optional sub-negotiation
\* reply, a CONNECT reply, then the first bytes of the tunnelled connection;
\* or less than that.
Tunnelled == <<22, 3>>
MethodReplies == {<<5, 0>>, <<5, 2>>, <<5, 255>>, <<4, 0>>}
AuthReplies == {<< >>, <<1, 0>>, <<1, 1>>}
ConnectReplies ==
    {<<5, 0, 0, 1, 10, 0, 0, 9, 4, 56>>,
     <<5, 0, 0, 4, 32, 1, 13, 184, 0, 0, 0, 0, 0, 0, 0, 0, 0, 0, 0, 9, 4, 56>>,
     <<5, 0, 0, 3, 3, 97, 98, 99, 4, 56>>,
     <<5, 5, 0, 1, 0, 0, 0, 0, 0, 0>>,
     <<4, 0, 0, 1, 0, 0, 0, 0, 0, 0>>,
     <<5, 0, 0, 9>>}
Socks5Scripts ==
    {Wire(m \o a \o r \o Tunnelled, 0, << >>) :
        m \in MethodReplies, a \in AuthReplies, r \in ConnectReplies}
    \cup {Wire(<<5>>, 0, << >>), Wire(<<5, 0, 5, 0, 0>>, 0, << >>),
          Wire(<<5, 0, 5, 0, 0, 1, 10, 0>>, 0, << >>),
          Wire(<<5, 0, 5, 0, 0, 3>>, 0, << >>),
          Wire(<<5, 0, 5, 0, 0, 3, 3, 97>>, 0, << >>)}

\* What an HTTP proxy may send: a status line, `pad` bytes of headers, the empty
\* line and the first bytes of the tunnelled connection; or no empty line.
HttpScript(status, pad, terminated) ==
    Wire(status \o CRLF, pad,
         IF ~terminated THEN << >>
         ELSE IF pad = 0 THEN CRLF \o Tunnelled
         ELSE CRLF \o CRLF \o Tunnelled)
StatusLines ==
    {Http11Ok \o <<32, 79, 75>>,
     Http10Ok \o <<32, 79, 75>>,
     Http11Ok \o <<48>>,
     <<72, 84, 84, 80, 47, 49, 46, 49, 32, 52, 48, 55>>,
     <<72, 84, 84, 80, 47, 49, 46, 49, 32, 50, 48>>,
     <<72, 84, 84, 80, 47, 49, 46, 49, 32, 255, 48, 48, 32, 79, 75>>,
     << >>}
HttpScripts ==
    {HttpScript(s, pad, t) : s \in StatusLines, pad \in {0, 3}, t \in BOOLEAN}
    \cup {HttpScript(Http11Ok, HttpMaxResponse + 10, FALSE)}

\* Responses whose empty line ends at, just before and just after the limit (a
\* terminated response of status s and pad > 0 has Len(s) + 6 + pad bytes), and
\* a response without an empty line.
HttpLongScripts ==
    {HttpScript(s, HttpMaxResponse + d - Len(s) - 6, TRUE) :
        s \in {Http11Ok \o <<32, 79, 75>>,
               <<72, 84, 84, 80, 47, 49, 46, 49, 32, 52, 48, 55>>},
        d \in {0 - 1, 0, 1, 2}}
    \cup {HttpScript(Http11Ok, HttpMaxResponse + 10, FALSE)}

\* The codecs: connect() calls, one at a time, on a process whose proxy was set
\* before, against proxies of every behaviour.
CodecInit == \E a \in CodecArgs : InitAfterSetProxy(a)

CodecNext ==
    \/ \E c \in Conns, cfg \in CodecConfigs, addr \in Targets : ConnBegin(c, cfg, addr)
    \/ \E c \in Conns : ConnResolve(c)
    \/ \E c \in Conns : ConnLockProxy(c)
    \/ \E c \in Conns : ConnReadProxy(c)
    \/ \E c \in Conns, ok \in BOOLEAN : ConnConnected(c, ok)
    \/ \E c \in Conns, script \in Socks5Scripts, ok \in BOOLEAN :
            Socks5WriteMethods(c, script, ok)
    \/ \E c \in Conns : Socks5ReadMethodReply(c)
    \/ \E c \in Conns, ok \in BOOLEAN : Socks5WriteAuth(c, ok)
    \/ \E c \in Conns : Socks5ReadAuthReply(c)
    \/ \E c \in Conns, ok \in BOOLEAN : Socks5WriteRequest(c, ok)
    \/ \E c \in Conns : Socks5ReadReplyHead(c)
    \/ \E c \in Conns : Socks5ReadBound(c)
    \/ \E c \in Conns : Socks5ReadDomainLen(c)
    \/ \E c \in Conns : Socks5ReadDomain(c)
    \/ \E c \in Conns, script \in HttpScripts, ok \in BOOLEAN :
            HttpWriteRequest(c, script, ok)
    \/ \E c \in Conns : HttpReadByte(c)

CodecSpec == CodecInit /\ [][CodecNext]_vars

\* The HTTP codec against responses of every status and of every length about
\* the limit.
HttpInit == InitAfterSetProxy(Some(InfoB))

HttpNext ==
    \/ \E c \in Conns, addr \in Targets : ConnBegin(c, ProviderConfig(TRUE), addr)
    \/ \E c \in Conns : ConnLockProxy(c)
    \/ \E c \in Conns : ConnReadProxy(c)
    \/ \E c \in Conns, ok \in BOOLEAN : ConnConnected(c, ok)
    \/ \E c \in Conns, script \in HttpScripts \cup HttpLongScripts, ok \in BOOLEAN :
            HttpWriteRequest(c, script, ok)
    \/ \E c \in Conns : HttpReadByte(c)

HttpSpec == HttpInit /\ [][HttpNext]_vars

\* The client: the service with its providers in use.  connect() calls are made
\* on the provider of a start() that is bootstrapping and on the provider of a
\* live accept task, with start(), stop() and set_proxy() running beside them.
ClientMaxStarts == 2
ClientMaxStops == 1
ClientStarters == {"s1"}
ClientPorts == {9050}
ClientTargets == {TargetV4}
ClientProxyArgs == {None, Some(InfoA), Some(InfoC)}

ClientNext ==
    \/ \E s \in ClientStarters, p \in ClientPorts, u \in BOOLEAN, e \in BOOLEAN :
            nStarts < ClientMaxStarts /\ StartCall(s, p, u, e)
    \/ \E s \in ClientStarters : StartBootstrapped(s)
    \/ \E s \in ClientStarters : StartBootstrapFailed(s)
    \/ nStops < ClientMaxStops /\ Stop
    \/ \E t \in DOMAIN tasks : TaskBind(t)
    \/ \E t \in DOMAIN tasks : TaskBindFail(t)
    \/ \E a \in ClientProxyArgs : SetProxyLock("w1", a)
    \/ SetProxyAssignFirst("w1")
    \/ SetProxyAssignRest("w1")
    \/ \E c \in Conns, s \in ClientStarters, addr \in ClientTargets :
            spc[s] = "boot" /\ ConnBeginOn(c, sargs[s], Unwrap(provider[s]), addr)
    \/ \E c \in Conns, t \in DOMAIN tasks, addr \in ClientTargets :
            Alive(t) /\ ConnBeginOn(c, tasks[t].args, Unwrap(tasks[t].cfg), addr)
    \/ \E c \in Conns : ConnResolve(c)
    \/ \E c \in Conns : ConnLockProxy(c)
    \/ \E c \in Conns : ConnReadProxy(c)
    \/ \E c \in Conns, ok \in BOOLEAN : ConnConnected(c, ok)
    \/ \E c \in Conns, ok \in BOOLEAN : ConnHandshake(c, ok)

ClientSpec == Init /\ [][ClientNext]_vars

-----------------------------------------------------------------------------
(* Claims about the service (checked under Spec) *)

StartStep == nStarts' = nStarts + 1
StopStep == nStops' = nStops + 1

\* C1: under every interleaving of start() and stop(), at most one accept task is
\* alive, and every live accept task is the one whose handle STATE records.
C1_OneServiceOneTask ==
    /\ Cardinality(AliveTasks) <= 1
    /\ \A t \in AliveTasks :
          IsSome(ServiceState) /\ Unwrap(ServiceState).handle = t

\* C2: a start() made while STATE holds port p returns Ok(p) whatever its
\* arguments are, spawns no task, starts no bootstrap, and leaves STATE and the
\* providers as they are.
C2_StartWhileRunningIsIdempotent ==
    [][(StartStep /\ IsSome(ServiceState)) =>
          /\ IsSome(lastRet')
          /\ Unwrap(lastRet').value = Ok(Unwrap(ServiceState).port)
          /\ UNCHANGED <<ServiceState, tasks, spc, sargs, provider>>]_vars

\* C2 witness: the service is running on one port, two start() calls were made and
\* one task exists, and the last start() asked for another port yet returned the
\* running one.
C2_Witness ==
    /\ IsSome(ServiceState)
    /\ nStarts = 2
    /\ Len(tasks) = 1
    /\ IsSome(lastRet)
    /\ Unwrap(lastRet).value = Ok(Unwrap(ServiceState).port)
    /\ Unwrap(lastRet).args.socks_port # Unwrap(ServiceState).port
    /\ Unwrap(lastRet).args.use_system_proxy # IsDynamic(Unwrap(tasks[1].cfg))

\* A step in which a start() returns an error: at its entry (build()? failed) or
\* out of its bootstrap.
StartFailsStep ==
    /\ IsSome(lastRet')
    /\ ~Unwrap(lastRet').value.ok
    /\ \/ StartStep /\ spc' = spc
       \/ \E s \in Starters : spc[s] = "boot" /\ spc'[s] = "idle"

\* C3: when a start() fails, it has spawned no task and the service is Stopped
\* (STATE is empty) afterwards.
C3_FailedStartLeavesStopped ==
    [][StartFailsStep => (tasks' = tasks /\ ServiceState' = None)]_vars

\* C4: stop() on a running service aborts the recorded task and empties STATE,
\* touching no other task; stop() on a stopped service changes nothing.
C4_StopAbortsAndIsIdempotent ==
    [][StopStep =>
          /\ ServiceState' = None
          /\ UNCHANGED <<spc, sargs, lastRet, provider, nStarts>>
          /\ IF IsSome(ServiceState)
             THEN LET h == Unwrap(ServiceState).handle
                  IN  /\ DOMAIN tasks' = DOMAIN tasks
                      /\ tasks'[h].st \notin {"spawned", "serving"}
                      /\ tasks'[h].st = "aborted" <=> tasks[h].st \in {"spawned", "serving"}
                      /\ \A t \in DOMAIN tasks : t # h => tasks'[t] = tasks[t]
             ELSE tasks' = tasks]_vars

\* C4 witness: after one start(), two stop() calls were made; one aborted the
\* task and the other found the service stopped.
C4_Witness ==
    /\ nStops = 2
    /\ nStarts = 1
    /\ ServiceState = None
    /\ Len(tasks) = 1
    /\ tasks[1].st = "aborted"

\* C5: whenever STATE reports the service running on port p, the recorded task
\* is the accept task of p and its bind has not failed.
C5_RunningPortIsServed ==
    IsSome(ServiceState) =>
        /\ tasks[Unwrap(ServiceState).handle].port = Unwrap(ServiceState).port
        /\ tasks[Unwrap(ServiceState).handle].st \in {"spawned", "serving"}

-----------------------------------------------------------------------------
(* Claims about the provider (checked under ProviderSpec) *)

Resolved(c) == cpc[c] \notin {"idle", "resolve", "locked"}

\* What an attempt that resolved while `snapshot` was the committed value of
\* CURRENT_PROXY is to use.
ConfigOfSnapshot(snapshot) == UnwrapOr(GetCurrentProxy(snapshot), Direct)

\* C6: an attempt on start()'s dynamic provider reads CURRENT_PROXY once, when it
\* resolves (an attempt on any other provider never reads it); the endpoint it
\* dials, the codec it runs and the credentials the codec uses are those of the
\* value committed when it resolved, whatever set_proxy() commits afterwards.
C6_AttemptUsesStateAtResolution ==
    \A c \in Conns :
        /\ reads[c] = IF ReadsGlobalState(ccfg[c]) /\ Resolved(c) THEN 1 ELSE 0
        /\ (ReadsGlobalState(ccfg[c]) /\ Resolved(c)) =>
              /\ IsSome(snap[c])
              /\ eff[c] = Some(ConfigOfSnapshot(Unwrap(snap[c])))
              /\ calls[c] = <<IF ConfigOfSnapshot(Unwrap(snap[c])).kind = "Direct"
                              THEN target[c]
                              ELSE ConfigOfSnapshot(Unwrap(snap[c])).proxy_addr>>
              /\ IsSome(hs[c]) =>
                    /\ Unwrap(hs[c]).kind = ConfigOfSnapshot(Unwrap(snap[c])).kind
                    /\ Unwrap(hs[c]).auth = ConfigOfSnapshot(Unwrap(snap[c])).auth

\* C6 witness: an attempt resolved to the SOCKS5 proxy with credentials, a
\* set_proxy() to another proxy committed after that, and the attempt then ran its
\* codec.
C6_Witness ==
    \E c \in Conns :
        /\ cpc[c] = "done"
        /\ snap[c] = Some(Some(InfoA))
        /\ committed = Some(InfoB)
        /\ IsSome(hs[c])
        /\ Unwrap(hs[c]).auth = Some(ProxyAuth(UserA, PassA))

\* The configuration that the argument `info` of one set_proxy() call stands for,
\* field by field.
FromOneUpdate(config, info) ==
    /\ config.kind = info.proxy_type
    /\ config.proxy_addr.ip = info.address
    /\ config.proxy_addr.port = info.port
    /\ IF info.username = None /\ info.password = None
       THEN config.auth = None
       ELSE /\ IsSome(config.auth)
            /\ Unwrap(config.auth).username = UnwrapOr(info.username, EmptyString)
            /\ Unwrap(config.auth).password = UnwrapOr(info.password, EmptyString)

C8_LockNotHeldAcrossIO ==
    \A c \in Conns : c \in proxyLock => cpc[c] = "locked"

\* C8 witness: while an attempt is in its codec, a set_proxy() holds the lock.
C8_Witness ==
    \E c \in Conns, w \in Writers :
        /\ cpc[c] = "handshake"
        /\ ReadsGlobalState(ccfg[c])
        /\ wpc[w] = "locked"
        /\ w \in proxyLock

\* C9: the configuration connect() dispatches on is never Dynamic, and connect()
\* never aborts on it: a Dynamic returned by the callback is replaced by Direct.
C9_DispatchNeverDynamic ==
    \A c \in Conns :
        /\ cpc[c] # "panicked"
        /\ IsSome(eff[c]) => ~IsDynamic(Unwrap(eff[c]))

\* What the callback of a Dynamic configuration returned to the attempt c.
CallbackReturned(c) ==
    IF ReadsGlobalState(ccfg[c])
    THEN GetCurrentProxy(Unwrap(snap[c]))
    ELSE ccfg[c].callback.ret

DirectLike(c) ==
    \/ ccfg[c] = Direct
    \/ IsDynamic(ccfg[c]) /\ CallbackReturned(c) = None

\* C10: Direct, Socks5 and HttpConnect resolve to themselves (and so does the
\* result, resolved again); a Dynamic whose callback returns None resolves to
\* Direct, and connect() then makes the one wrapped-provider call to the target
\* and returns its result, as under Direct.
C10_ResolutionOfStaticAndNone ==
    \A c \in Conns :
        Resolved(c) =>
            /\ ~IsDynamic(ccfg[c]) =>
                  /\ eff[c] = Some(ccfg[c])
                  /\ EffectiveConfig(Unwrap(eff[c]), None) = ccfg[c]
            /\ DirectLike(c) =>
                  /\ eff[c] = Some(Direct)
                  /\ calls[c] = <<target[c]>>
                  /\ hs[c] = None
                  /\ cpc[c] = "done" =>
                        cres[c] = Some(IF innerRes[c] = "ok"
                                       THEN OkStream(target[c])
                                       ELSE Err("connect"))

\* C10 witness: a connect() under a Dynamic whose callback returned None has
\* returned the stream the wrapped provider opened to the target.
C10_Witness ==
    \E c \in Conns :
        /\ cpc[c] = "done"
        /\ ccfg[c] = Dynamic(ConstCallback(None))
        /\ cres[c] = Some(OkStream(target[c]))
        /\ target[c] = TargetV6

-----------------------------------------------------------------------------
(* Claims about connect() and its codecs (checked under CodecSpec) *)

\* connect() is over: it returned, or it panicked.
Over(c) == cpc[c] \in {"done", "panicked"}

\* C11: every connect() call invokes the wrapped provider's connect exactly
\* once whatever its outcome: with the target under Direct, with the proxy
\* endpoint (never the target) under Socks5 and HttpConnect; no failure of the
\* proxy connect or of the handshake leads to a second call.
C11_OneWrappedConnect ==
    \A c \in Conns :
        /\ Len(calls[c]) <= 1
        /\ Over(c) =>
              /\ Len(calls[c]) = 1
              /\ Unwrap(eff[c]).kind = "Direct" => calls[c][1] = target[c]
              /\ Unwrap(eff[c]).kind \in {"Socks5", "HttpConnect"} =>
                    /\ calls[c][1] = Unwrap(eff[c]).proxy_addr
                    /\ calls[c][1] # target[c]

\* The bytes i+1 .. i+n the proxy sent on the stream of c.
Sent(c, i, n) == [j \in 1..n |-> WireAt(wire[c], i + j)]

\* The SOCKS5 handshake of c is in its success state: the codec has read a method
\* reply selecting a method it offered, a sub-negotiation reply of status 0 when
\* that method was username/password, and a whole CONNECT reply of code 0.
Socks5AuthEntered(c) == rxn[c] >= 2 /\ Sent(c, 0, 2) = <<5, 2>> /\ IsSome(HandshakeAuth(c))
Socks5ReplyAt(c) == IF Socks5AuthEntered(c) THEN 4 ELSE 2
Socks5Succeeded(c) ==
    /\ rxn[c] >= Socks5ReplyAt(c) + 4
    /\ Sent(c, 0, 2) = <<5, 0>> \/ (Socks5AuthEntered(c) /\ Sent(c, 2, 2)[2] = 0)
    /\ Sent(c, Socks5ReplyAt(c), 2) = <<5, 0>>
    /\ LET atyp == Sent(c, Socks5ReplyAt(c), 4)[4]
       IN  \/ atyp = 1 /\ rxn[c] >= Socks5ReplyAt(c) + 4 + 6
           \/ atyp = 4 /\ rxn[c] >= Socks5ReplyAt(c) + 4 + 18
           \/ /\ atyp = 3
              /\ rxn[c] >= Socks5ReplyAt(c) + 5
              /\ rxn[c] >= Socks5ReplyAt(c) + 5 + Sent(c, Socks5ReplyAt(c), 5)[5] + 2
    /\ Len(tx[c]) >= 2
    /\ tx[c][Len(tx[c])] = ConnectRequest(target[c])

\* The HTTP handshake of c is in its success state: the codec has sent the request
\* and read a response that ends in the empty line and has status 200.
HttpSucceeded(c) ==
    /\ Len(tx[c]) = 1
    /\ rxn[c] >= 12
    /\ Sent(c, rxn[c] - 4, 4) = <<13, 10, 13, 10>>
    /\ Sent(c, 0, 12) \in {Http11Ok, Http10Ok}

HandshakeSucceeded(c) ==
    \/ Unwrap(eff[c]).kind = "Direct"
    \/ Unwrap(eff[c]).kind = "Socks5" /\ Socks5Succeeded(c)
    \/ Unwrap(eff[c]).kind = "HttpConnect" /\ HttpSucceeded(c)

Returned_Ok(c) == cpc[c] = "done" /\ Unwrap(cres[c]).ok
Returned_Err(c) == cpc[c] = "done" /\ ~Unwrap(cres[c]).ok

\* C12: connect() hands a stream to the caller only when the wrapped connect
\* succeeded and the handshake reached its success state; on every failure path
\* the caller receives only an error, the stream to the proxy (if one was
\* opened) is dropped, and the step that detects the failure writes nothing.
C12_StreamOnlyOnSuccess ==
    /\ [](\A c \in Conns :
            /\ Returned_Ok(c) =>
                  /\ innerRes[c] = "ok"
                  /\ owner[c] = "caller"
                  /\ HandshakeSucceeded(c)
            /\ Returned_Err(c) =>
                  /\ owner[c] = IF innerRes[c] = "ok" THEN "dropped" ELSE "none"
                  /\ owner[c] # "caller")
    /\ [][\A c \in Conns :
            (cpc[c] # "done" /\ cpc'[c] = "done" /\ ~Unwrap(cres'[c]).ok) => tx'[c] = tx[c]]_vars

\* C12 witness: a connect() failed inside the codec, after the codec had written
\* to the proxy, and the stream was dropped.
C12_Witness ==
    \E c \in Conns :
        /\ Returned_Err(c)
        /\ innerRes[c] = "ok"
        /\ Len(tx[c]) >= 2
        /\ owner[c] = "dropped"

\* The sub-negotiation of c was answered with a non-zero status: credentials
\* present, method 0x02 selected, the two-byte reply read.
AuthRejected(c) ==
    /\ IsSome(hs[c])
    /\ Unwrap(hs[c]).kind = "Socks5"
    /\ Socks5AuthEntered(c)
    /\ Len(tx[c]) >= 2
    /\ rxn[c] >= 4
    /\ Sent(c, 2, 2)[2] # 0

\* C13: when the SOCKS5 codec runs with credentials, the proxy selects method
\* 0x02 and answers the sub-negotiation with a non-zero status, connect() fails
\* with the authentication error and no CONNECT request is ever written.
C13_AuthFailureStopsHandshake ==
    \A c \in Conns :
        AuthRejected(c) =>
            /\ Returned_Err(c)
            /\ Unwrap(cres[c]).err = IoError("PermissionDenied", "SOCKS5 auth failed")
            /\ tx[c] = <<MethodSelection(HandshakeAuth(c)),
                         AuthRequest(Unwrap(HandshakeAuth(c)))>>
            /\ \A i \in 1..Len(tx[c]) : tx[c][i] # ConnectRequest(target[c])

\* C13 witness: a connect() whose sub-negotiation was answered with status 1 has
\* returned.
C13_Witness ==
    \E c \in Conns :
        /\ AuthRejected(c)
        /\ Sent(c, 2, 2) = <<1, 1>>
        /\ cpc[c] = "done"

\* The codec of c has read the head of a CONNECT reply of code 0 whose bound
\* address is of a known type, and the proxy sent that address in full.
ReplyHead(c) == Sent(c, Socks5ReplyAt(c), 4)
BoundFieldLen(c) ==
    IF ReplyHead(c)[4] = 1 THEN 6
    ELSE IF ReplyHead(c)[4] = 4 THEN 18
    ELSE 1 + Sent(c, Socks5ReplyAt(c), 5)[5] + 2
SuccessReplySent(c) ==
    /\ IsSome(hs[c])
    /\ Unwrap(hs[c]).kind = "Socks5"
    /\ rxn[c] >= Socks5ReplyAt(c) + 4
    /\ Len(tx[c]) >= 2
    /\ tx[c][Len(tx[c])] = ConnectRequest(target[c])
    /\ ReplyHead(c)[1] = 5
    /\ ReplyHead(c)[2] = 0
    /\ ReplyHead(c)[4] \in {1, 3, 4}
    /\ WireLen(wire[c]) >= Socks5ReplyAt(c) + 5
    /\ WireLen(wire[c]) >= Socks5ReplyAt(c) + 4 + BoundFieldLen(c)

\* C14: a SOCKS5 handshake whose CONNECT reply reports success ends with the
\* codec having read exactly the method reply (2 bytes), the sub-negotiation
\* reply when entered (2 bytes), the 4-byte head of the CONNECT reply and its
\* bound address (6 bytes for type 0x01, 18 for 0x04, 1+len+2 for 0x03): no
\* fewer and no more, so that the caller's first byte is the first tunnelled one.
C14_ExactConsumption ==
    \A c \in Conns :
        (SuccessReplySent(c) /\ Over(c)) =>
            /\ Returned_Ok(c)
            /\ rxn[c] = Socks5ReplyAt(c) + 4 + BoundFieldLen(c)
            /\ Sent(c, rxn[c], Len(Tunnelled)) = Tunnelled

-----------------------------------------------------------------------------
(* Claims about the HTTP CONNECT codec (checked under HttpSpec) *)

\* C15: the HTTP CONNECT codec never accumulates and never accepts a response
\* of more than 8192 bytes: when the first 8192 bytes of the response do not
\* contain the whole "\r\n\r\n", connect() fails with the too-large error, and
\* it has read no more than 8192 bytes by then.
C15_ResponseCap ==
    \A c \in Conns :
        (IsSome(hs[c]) /\ Unwrap(hs[c]).kind = "HttpConnect") =>
            /\ rxn[c] <= HttpMaxResponse
            /\ (rxn[c] >= HttpMaxResponse
                  /\ \A n \in 4..HttpMaxResponse : ~ResponseEndsHeaders(wire[c], n)
                  /\ Over(c))
                  => cres[c] = Some(Err(IoError("Other", "HTTP response too large")))


\* The HTTP codec of c sent its request, the proxy's response has an empty line
\* within the limit, and connect() is over.
HttpAnswered(c) ==
    /\ Over(c)
    /\ IsSome(hs[c])
    /\ Unwrap(hs[c]).kind = "HttpConnect"
    /\ Len(tx[c]) = 1
    /\ \E n \in 4..HttpMaxResponse :
          n <= WireLen(wire[c]) /\ Sent(c, n - 4, 4) = <<13, 10, 13, 10>>

\* The number of bytes of the response up to the end of its first empty line.
HeadersEnd(c) ==
    CHOOSE n \in 4..WireLen(wire[c]) :
        /\ Sent(c, n - 4, 4) = <<13, 10, 13, 10>>
        /\ \A k \in 4..(n - 1) : Sent(c, k - 4, 4) # <<13, 10, 13, 10>>

\* The status line the proxy sent: the bytes before the first "\r\n".
StatusLineSent(c) == SubSeq(wire[c].head, 1, Len(wire[c].head) - 2)

\* C16: on a response that ends in "\r\n\r\n" (within the limit on its length)
\* the HTTP CONNECT codec succeeds exactly when the response begins with
\* "HTTP/1.1 200" or "HTTP/1.0 200"; otherwise it fails with an error carrying
\* the first line of the response; in both cases it has read the response up to
\* the end of the empty line and no byte beyond.
C16_HttpStatusDecides ==
    \A c \in Conns :
        HttpAnswered(c) =>
            /\ cpc[c] = "done"
            /\ rxn[c] = HeadersEnd(c)
            /\ Unwrap(cres[c]).ok <=>
                  /\ HeadersEnd(c) >= 12
                  /\ \/ Sent(c, 0, 12) = <<72, 84, 84, 80, 47, 49, 46, 49, 32, 50, 48, 48>>
                     \/ Sent(c, 0, 12) = <<72, 84, 84, 80, 47, 49, 46, 48, 32, 50, 48, 48>>
            /\ ~Unwrap(cres[c]).ok =>
                  Unwrap(cres[c]).err =
                      IoError("Other", <<"HTTP CONNECT failed", FromUtf8Lossy(StatusLineSent(c))>>)

\* C16 witness: a response with status 407 and headers was refused, its status
\* line is in the error, and the bytes after the empty line are unread.
C16_Witness ==
    \E c \in Conns :
        /\ HttpAnswered(c)
        /\ wire[c].pad = 3
        /\ StatusLineSent(c) = <<72, 84, 84, 80, 47, 49, 46, 49, 32, 52, 48, 55>>
        /\ ~Unwrap(cres[c]).ok
        /\ rxn[c] + Len(Tunnelled) = WireLen(wire[c])

-----------------------------------------------------------------------------
(* Claims about the codecs, continued (checked under CodecSpec) *)

\* The value of CURRENT_PROXY the attempt c resolved under.
InfoUsed(c) == Unwrap(Unwrap(snap[c]))

\* A codec is running or has run for c, on start()'s dynamic provider.
CodecRan(c) ==
    /\ ReadsGlobalState(ccfg[c])
    /\ IsSome(hs[c])
    /\ Len(tx[c]) >= 1

\* Method 0x02 is among the methods of a method-selection message.
OffersUserPass(msg) == \E i \in 3..Len(msg) : i <= 2 + msg[2] /\ msg[i] = 2

\* An HTTP request has a Proxy-Authorization header.
HasProxyAuthorization(req) == \E i \in 1..Len(req) : req[i].h = "Proxy-Authorization"

\* C17: authenticated negotiation follows from the presence of credentials, not
\* from their content: when the ProxyInfo has a username or a password, even
\* empty ones, the SOCKS5 codec offers method 0x02 and the HTTP codec sends a
\* Proxy-Authorization header, and the credentials used are the two fields with
\* the empty string for a missing one; when it has neither, neither happens.
C17_PresenceTriggersAuth ==
    \A c \in Conns :
        CodecRan(c) =>
            LET info == InfoUsed(c)
                present == IsSome(info.username) \/ IsSome(info.password)
                auth == Unwrap(hs[c]).auth
            IN  /\ IsSome(auth) <=> present
                /\ present =>
                      /\ Unwrap(auth).username =
                            (IF IsSome(info.username) THEN Unwrap(info.username) ELSE << >>)
                      /\ Unwrap(auth).password =
                            (IF IsSome(info.password) THEN Unwrap(info.password) ELSE << >>)
                /\ Unwrap(hs[c]).kind = "Socks5" =>
                      (OffersUserPass(tx[c][1]) <=> present)
                /\ Unwrap(hs[c]).kind = "HttpConnect" =>
                      (HasProxyAuthorization(tx[c][1]) <=> present)

\* C17 witness: the SOCKS5 codec ran with an empty username and an empty
\* password and offered method 0x02.
C17_Witness ==
    \E c \in Conns :
        /\ CodecRan(c)
        /\ InfoUsed(c) = InfoSocksEmpty
        /\ OffersUserPass(tx[c][1])
        /\ Len(tx[c]) >= 2
        /\ tx[c][2] = <<1, 0, 0>>

\* The SOCKS5 codec of c has read the method reply (and no write_all after
\* that has failed: a failed write tells nothing of what was to be written).
MethodReplyRead(c) ==
    /\ IsSome(hs[c])
    /\ Unwrap(hs[c]).kind = "Socks5"
    /\ Len(tx[c]) >= 1
    /\ rxn[c] >= 2
    /\ cpc[c] # "s5_method_reply"
    /\ ~(Returned_Err(c) /\ Unwrap(cres[c]).err = WriteFailed)

\* What the codec of c does after the method reply: the second message it
\* writes is the username/password message, or the CONNECT request; or it fails
\* on the reply, having written the method selection only.
EntersSubNegotiation(c) ==
    /\ IsSome(HandshakeAuth(c))
    /\ cpc[c] = "s5_write_auth"
       \/ (Len(tx[c]) >= 2 /\ tx[c][2] = AuthRequest(Unwrap(HandshakeAuth(c))))
GoesToConnect(c) ==
    \/ cpc[c] = "s5_write_request" /\ Len(tx[c]) = 1
    \/ Len(tx[c]) >= 2 /\ tx[c][2] = ConnectRequest(target[c])
FailsAtMethod(c) ==
    /\ Returned_Err(c)
    /\ Len(tx[c]) = 1
    /\ Unwrap(cres[c]).err.kind = "Other"

\* C18: SOCKS5 method negotiation.  Without credentials the codec offers method
\* 0x00 only and fails unless the reply is (0x05, 0x00).  With credentials it
\* offers 0x00 and 0x02; on a reply of version 0x05 it enters the username/
\* password sub-negotiation iff the proxy selected 0x02, goes to the CONNECT
\* request without sending credentials iff it selected 0x00, and fails on any
\* other method.  A reply of another version always fails.
C18_MethodNegotiation ==
    \A c \in Conns :
        (IsSome(hs[c]) /\ Unwrap(hs[c]).kind = "Socks5" /\ Len(tx[c]) >= 1) =>
            LET auth == Unwrap(hs[c]).auth
                offered == {tx[c][1][i] : i \in 3..Len(tx[c][1])}
                reply == Sent(c, 0, 2)
            IN  /\ tx[c][1][1] = 5
                /\ tx[c][1][2] = Len(tx[c][1]) - 2
                /\ offered = IF IsSome(auth) THEN {0, 2} ELSE {0}
                /\ MethodReplyRead(c) =>
                      /\ reply[1] # 5 => FailsAtMethod(c)
                      /\ (reply[1] = 5 /\ ~IsSome(auth)) =>
                            IF reply[2] = 0 THEN GoesToConnect(c) /\ ~FailsAtMethod(c)
                            ELSE FailsAtMethod(c)
                      /\ (reply[1] = 5 /\ IsSome(auth)) =>
                            /\ reply[2] = 2 <=> EntersSubNegotiation(c) /\ ~GoesToConnect(c)
                            /\ reply[2] = 0 <=> GoesToConnect(c) /\ ~EntersSubNegotiation(c)
                            /\ reply[2] \notin {0, 2} <=> FailsAtMethod(c)

\* C18 witness: with credentials offered the proxy selected "no authentication"
\* and the codec wrote the CONNECT request next, no credentials before it.
C18_Witness ==
    \E c \in Conns :
        /\ MethodReplyRead(c)
        /\ IsSome(HandshakeAuth(c))
        /\ Sent(c, 0, 2) = <<5, 0>>
        /\ tx[c] = <<MethodSelection(HandshakeAuth(c)), ConnectRequest(target[c])>>

\* The number of bytes of replies the codec of c must have read before its
\* i-th message may be written: none for the method selection, the method
\* reply for the second message, and the sub-negotiation reply too for a third.
RepliesBefore(i) == 2 * (i - 1)

\* The i-th message the codec of c wrote is the username/password message.
IsAuthRequest(c, i) ==
    /\ IsSome(HandshakeAuth(c))
    /\ tx[c][i] = AuthRequest(Unwrap(HandshakeAuth(c)))

\* C19: the SOCKS5 codec is strictly sequential.  The first message it writes is
\* the method selection; it writes the username/password message only after the
\* 2-byte method reply was read, and the CONNECT request only after the method
\* reply and, when the sub-negotiation was entered, its reply were read; it never
\* has two requests unanswered, and it writes the CONNECT request at most once.
C19_StrictlySequential ==
    \A c \in Conns :
        (IsSome(hs[c]) /\ Unwrap(hs[c]).kind = "Socks5") =>
            /\ Len(tx[c]) <= 3
            /\ Len(tx[c]) >= 1 => tx[c][1] = MethodSelection(HandshakeAuth(c))
            /\ \A i \in 1..Len(tx[c]) : rxn[c] >= RepliesBefore(i)
            /\ Len(tx[c]) = 3 =>
                  /\ IsAuthRequest(c, 2)
                  /\ tx[c][3] = ConnectRequest(target[c])
            /\ Len(tx[c]) = 2 =>
                  \/ IsAuthRequest(c, 2) /\ Sent(c, 0, 2) = <<5, 2>>
                  \/ tx[c][2] = ConnectRequest(target[c]) /\ Sent(c, 0, 2) = <<5, 0>>
            /\ Cardinality({i \in 1..Len(tx[c]) : tx[c][i] = ConnectRequest(target[c])}) <= 1

\* C19 witness: a handshake with sub-negotiation ran to its end: three messages
\* written, each after the reply to the one before.
C19_Witness ==
    \E c \in Conns :
        /\ Returned_Ok(c)
        /\ IsSome(hs[c])
        /\ Unwrap(hs[c]).kind = "Socks5"
        /\ Len(tx[c]) = 3
        /\ target[c] = TargetV6

\* C20: in the username/password message the codec writes, the byte after the
\* version is the number of username bytes that follow it, and the byte after
\* the username is the number of password bytes that follow it, whatever the
\* lengths of the credentials, those above 255 bytes included.
C20_LengthBytesMatch ==
    \A c \in Conns :
        (IsSome(hs[c]) /\ Unwrap(hs[c]).kind = "Socks5"
            /\ Socks5AuthEntered(c) /\ Len(tx[c]) >= 2) =>
            LET msg == tx[c][2]
                username == Unwrap(Unwrap(hs[c]).auth).username
                password == Unwrap(Unwrap(hs[c]).auth).password
            IN  /\ msg[1] = 1
                /\ msg[2] = Len(username)
                /\ Len(msg) = 3 + Len(username) + Len(password)
                /\ SubSeq(msg, 3, 2 + Len(username)) = username
                /\ msg[3 + Len(username)] = Len(password)
                /\ SubSeq(msg, 4 + Len(username), Len(msg)) = password

-----------------------------------------------------------------------------
(* Claims about the service, continued (checked under Spec) *)

\* stop() has returned and no start() was invoked since.
StoppedAndNoStartSince == IsSome(stopAt) /\ Unwrap(stopAt) = nStarts

\* C23: once stop() has returned and no start() is invoked after it, the
\* service is Stopped and stays so, and no accept task of a start() that began
\* before the stop() is alive or comes alive, also when that start() was
\* still bootstrapping when stop() ran.
C23_StopIsFinal ==
    StoppedAndNoStartSince =>
        /\ ServiceState = None
        /\ AliveTasks = {}

-----------------------------------------------------------------------------
(* Claims about the service and its providers (checked under ClientSpec) *)

\* connect() call c is in progress or over, on the provider built by a start()
\* whose use_system_proxy argument was u.
BuiltByStart(c, u) ==
    /\ cpc[c] # "idle"
    /\ IsSome(cstart[c])
    /\ Unwrap(cstart[c]).use_system_proxy = u

\* A start() call made while STATE holds a service.
StartWhileRunning == StartStep /\ IsSome(ServiceState)

\* C21: a connect() of a service started with use_proxy = false never reads the
\* proxy state and dials the target itself, with no proxy handshake, whatever
\* set_proxy() has committed or is writing; a start() made while the service is
\* Running replaces neither the service nor a provider; only a connect() of a
\* service started with use_proxy = true reads the proxy state.
C21_NoProxyServiceIsDirect ==
    /\ [](\A c \in Conns :
            /\ BuiltByStart(c, FALSE) =>
                  /\ ccfg[c] = Direct
                  /\ reads[c] = 0
                  /\ snap[c] = None
                  /\ hs[c] = None
                  /\ Resolved(c) =>
                        /\ eff[c] = Some(Direct)
                        /\ calls[c] = <<target[c]>>
                  /\ Returned_Ok(c) => Unwrap(cres[c]) = OkStream(target[c])
            /\ (cpc[c] # "idle" /\ reads[c] > 0) => BuiltByStart(c, TRUE))
    /\ [][StartWhileRunning =>
            /\ UNCHANGED <<ServiceState, tasks, spc, sargs, provider>>
            /\ UNCHANGED connVars
            /\ UNCHANGED cellVars]_vars

\* A connect() of a service started with use_proxy = false reached the target
\* while a parsable proxy was committed and after a start(use_proxy = true)
\* made while Running had returned.
C21_Witness ==
    /\ \E c \in Conns :
            /\ BuiltByStart(c, FALSE)
            /\ Returned_Ok(c)
            /\ calls[c] = <<target[c]>>
    /\ committed = Some(InfoA)
    /\ IsSome(ServiceState)
    /\ IsSome(lastRet)
    /\ Unwrap(lastRet).args.use_system_proxy
    /\ Unwrap(lastRet).value.ok
    /\ nStarts = 2

\* C22: a connect() of a service started with use_proxy = true that resolved
\* while CURRENT_PROXY held a ProxyInfo dials the endpoint that ProxyInfo
\* names, once, and never the target; it dials the target only when
\* CURRENT_PROXY was None when it resolved.
C22_ProxyStateIsUsed ==
    \A c \in Conns :
        (BuiltByStart(c, TRUE) /\ Resolved(c) /\ IsSome(snap[c])) =>
            IF IsSome(Unwrap(snap[c]))
            THEN /\ calls[c] = <<SocketAddr(InfoUsed(c).address, InfoUsed(c).port)>>
                 /\ calls[c] # <<target[c]>>
            ELSE calls[c] = <<target[c]>>

=============================================================================
